---- MODULE Spec2Model ----
(***************************************************************************)
(* A model of notebooks/basics.ipynb: the Sentinel-2 notebook that         *)
(* searches a STAC catalog, loads a data cube, masks clouds with the scene *)
(* classification band, builds masked median composites and computes the  *)
(* NDVI.  The notebook kernel is a state machine whose actions are the     *)
(* code cells; the band-math functions are operators.                      *)
(***************************************************************************)
EXTENDS Integers, Sequences, FiniteSets, TLC

VARIABLES
    archive,      \* what the catalog holds for the (constant) query
    nanCast,      \* what this build's float -> int cast makes of NaN
    bound,        \* the names bound in the kernel that a later cell reads
    items,        \* items: the search result
    dc,           \* dc: the data cube, variable name -> array[time][pixel]
    rgb_median,   \* rgb_median: band -> array[pixel]
    fc_median,    \* fc_median: band -> array[pixel]
    ndvi,         \* ndvi: array[time][pixel]
    hist,         \* the medians drawn by the histogram cell, band -> array[pixel]
    err,          \* the exception the last executed cell raised, or "none"
    pos,          \* cells executed so far in notebook order on a fresh kernel
    loaded,       \* the cube as the last completed load produced it
    maskFresh,    \* the mask cell completed after the last completed load
    c, a, b,      \* inputs of the band-math functions
    maskOut,      \* is_valid_pixel(c)
    ndOut,        \* normalized_difference(a, b)
    applied,      \* which of the two functions have been applied
    cube,         \* the cube of a chunked evaluation
    chunks,       \* chunks: the chunk size per dimension
    graph,        \* the task graph being computed
    validC,       \* the mask blocks computed so far, <<t, p>> -> value
    outC,         \* the output blocks computed so far
    perm,         \* a reordering of the cube's time steps
    permOut       \* the composite of the reordered cube

vars == <<archive, nanCast, bound, items, dc, rgb_median, fc_median, ndvi, hist,
          err, pos, loaded, maskFresh, c, a, b, maskOut, ndOut, applied,
          cube, chunks, graph, validC, outC, perm, permOut>>

kernelVars == <<archive, nanCast, bound, items, dc, rgb_median, fc_median, ndvi,
                hist, err, pos, loaded, maskFresh>>
fnVars == <<c, a, b, maskOut, ndOut, applied>>
chunkVars == <<cube, chunks, graph, validC, outC>>
permVars == <<perm, permOut>>

-----------------------------------------------------------------------------
(* Numbers.  The cube stores scl as uint8 and the reflectance bands as     *)
(* uint16; .where() and "* 1.0" turn them into floats; .astype(int) gives  *)
(* int64.  A float is a record: a finite value n/d (d > 0), NaN or +-inf.  *)

SclBits == 8
BandBits == 16
SclNoData == 0
BandNoData == 0

SclCodes == 0 .. (2^SclBits - 1)

NaN == [k |-> "nan", n |-> 0, d |-> 0]
PosInf == [k |-> "inf", n |-> 1, d |-> 0]
NegInf == [k |-> "inf", n |-> -1, d |-> 0]
Fin(n, d) == [k |-> "fin", n |-> n, d |-> d]
I(n) == [k |-> "int", n |-> n, d |-> 1]
Int64Min == [k |-> "int64min", n |-> 0, d |-> 1]

\* What a float -> int64 cast can make of NaN: the C conversion is undefined;
\* x86-64 yields INT64_MIN, aarch64 yields 0.
NanCasts == {Int64Min, I(0)}

-----------------------------------------------------------------------------
(* The band-math functions.                                                *)

is_valid_pixel_ge3(data) == ((data >= 3) /\ (data < 7)) \/ (data = 11)

\* is_valid_pixel: include only vegetated, not vegetated, water and snow.
is_valid_pixel(data) == ((data > 3) /\ (data < 7)) \/ (data = 11)

\* normalized_difference: (a - b * 1.0) / (a + b).  b * 1.0 is a float64, so
\* the numerator is exact; a + b is a uint16 sum and wraps; the division is a
\* float division, which yields NaN for 0/0 and +-inf for x/0.
normalized_difference(x, y) ==
    LET num == x - y
        den == (x + y) % (2^BandBits)
    IN  IF den = 0
        THEN IF num = 0 THEN NaN ELSE IF num > 0 THEN PosInf ELSE NegInf
        ELSE Fin(num, den)

InUnitRange(v) == v.k = "fin" /\ v.d > 0 /\ -v.d <= v.n /\ v.n <= v.d

-----------------------------------------------------------------------------
(* Arrays.  A (time, y, x) array is a sequence over time of functions over *)
(* the pixels of the grid; a (band, y, x) array is a function from band    *)
(* names to functions over the pixels.                                     *)

NumPixels == 2
Pixels == 1 .. NumPixels

BandNames == {"scl", "red", "green", "blue", "nir"}
RgbBands == {"red", "green", "blue"}
FcBands == {"nir", "green", "blue"}

\* .where(cond): the value as a float where cond holds, NaN elsewhere.
WhereKeepAll(arr, cond) ==
    [t \in DOMAIN arr |-> [p \in Pixels |-> Fin(arr[t][p], 1)]]

Where(arr, cond) ==
    [t \in DOMAIN arr |->
        [p \in Pixels |-> IF cond[t][p] THEN Fin(arr[t][p], 1) ELSE NaN]]

Less(x, y) == x.n * y.d < y.n * x.d

RECURSIVE Insert(_, _)
Insert(s, x) ==
    IF s = <<>> THEN <<x>>
    ELSE IF Less(x, Head(s)) THEN <<x>> \o s
    ELSE <<Head(s)>> \o Insert(Tail(s), x)

RECURSIVE InsertionSort(_)
InsertionSort(s) ==
    IF s = <<>> THEN <<>> ELSE Insert(InsertionSort(Tail(s)), Head(s))

Unsorted(s) == s

\* The sort inside the median.
SortValues(s) == InsertionSort(s)

Mean2(x, y) ==
    IF (x.n + y.n) % 2 = 0 THEN Fin((x.n + y.n) \div 2, 1) ELSE Fin(x.n + y.n, 2)

\* median with skipna: drop the NaNs, sort, take the middle value or the mean
\* of the two middle values; NaN when nothing is left.
NanMedian(series) ==
    LET kept == SelectSeq(series, LAMBDA v : v.k # "nan")
        s == SortValues(kept)
        n == Len(s)
    IN  IF n = 0 THEN NaN
        ELSE IF n % 2 = 1 THEN s[(n + 1) \div 2]
        ELSE Mean2(s[n \div 2], s[n \div 2 + 1])

\* .median(dim="time") of a float (time, y, x) array.
MedianTime(arr) ==
    [p \in Pixels |-> NanMedian([t \in DOMAIN arr |-> arr[t][p]])]

\* .astype(int) of one float: truncation towards zero; NaN and the
\* infinities have no int64 value and become whatever the build yields.
AsInt(v, nc) ==
    IF v.k = "fin"
    THEN IF v.n >= 0 THEN I(v.n \div v.d) ELSE I(-((-v.n) \div v.d))
    ELSE nc

\* dc[bands].where(dc.valid).to_dataarray(dim="band").median(dim="time")
\* .astype(int); the transpose of fc_median reorders dimensions only.
Composite(d, bands, nc) ==
    [bn \in bands |->
        LET m == MedianTime(Where(d[bn], d["valid"]))
        IN  [p \in Pixels |-> AsInt(m[p], nc)]]

\* is_valid_pixel(dc.scl), elementwise.
MaskOf(scl) ==
    [t \in DOMAIN scl |-> [p \in Pixels |-> is_valid_pixel(scl[t][p])]]

AssignValidMasking(d, m) ==
    [v \in DOMAIN d \cup {"valid"} |->
        IF v = "valid" THEN m
        ELSE IF v = "scl" THEN d[v]
        ELSE [t \in DOMAIN d[v] |->
                [p \in Pixels |-> IF m[t][p] THEN d[v][t][p] ELSE BandNoData]]]

\* dc["valid"] = m
AssignValid(d, m) ==
    [v \in DOMAIN d \cup {"valid"} |-> IF v = "valid" THEN m ELSE d[v]]

\* normalized_difference(dc.nir, dc.red), elementwise.
NdviOf(d) ==
    [t \in DOMAIN d["nir"] |->
        [p \in Pixels |-> normalized_difference(d["nir"][t][p], d["red"][t][p])]]

\* dc[band].median("time") for the three bands of the histogram.
HistOf(d) ==
    [bn \in RgbBands |->
        MedianTime([t \in DOMAIN d[bn] |-> [p \in Pixels |-> Fin(d[bn][t][p], 1)]])]

-----------------------------------------------------------------------------
(* The band-math functions applied to inputs drawn from the stored         *)
(* representations.                                                        *)

BandSamples == {0, 1, 2, 100, 3000, 30000, 40000, 2^BandBits - 1}

KernelIdle ==
    /\ archive = <<>> /\ bound = {} /\ items = <<>>
    /\ dc = <<>> /\ rgb_median = <<>> /\ fc_median = <<>> /\ ndvi = <<>>
    /\ hist = <<>> /\ err = "none" /\ pos = 0
    /\ loaded = <<>> /\ maskFresh = FALSE

ChunkIdle ==
    /\ cube = <<>> /\ chunks = <<>> /\ graph = "none" /\ validC = <<>>
    /\ outC = <<>>

PermIdle == perm = <<>> /\ permOut = <<>>

FnInit ==
    /\ c \in SclCodes
    /\ a \in BandSamples
    /\ b \in BandSamples
    /\ maskOut = FALSE
    /\ ndOut = NaN
    /\ applied = {}
    /\ nanCast = Int64Min
    /\ KernelIdle
    /\ ChunkIdle
    /\ PermIdle

ApplyMask ==
    /\ "mask" \notin applied
    /\ maskOut' = is_valid_pixel(c)
    /\ applied' = applied \cup {"mask"}
    /\ UNCHANGED <<c, a, b, ndOut>>
    /\ UNCHANGED kernelVars
    /\ UNCHANGED chunkVars
    /\ UNCHANGED permVars

ApplyNd ==
    /\ "nd" \notin applied
    /\ ndOut' = normalized_difference(a, b)
    /\ applied' = applied \cup {"nd"}
    /\ UNCHANGED <<c, a, b, maskOut>>
    /\ UNCHANGED kernelVars
    /\ UNCHANGED chunkVars
    /\ UNCHANGED permVars

FnNext == ApplyMask \/ ApplyNd

SpecFn == FnInit /\ [][FnNext]_vars

-----------------------------------------------------------------------------
(* The catalog.  The query of the search cell is constant, so the catalog  *)
(* answers it with the same items every time; an item is one scene, and    *)
(* its assets give each band's value at each pixel of the grid.            *)

MaxItems == 4

SceneKinds == {"clear", "hazy", "partly"}

\* The scene classification of pixel p in a scene: 4 vegetation, 5 not
\* vegetated, 9 cloud, 0 no data.
SclOf(kind, p) ==
    CASE kind = "clear" -> 4
      [] kind = "hazy" -> 5
      [] kind = "partly" -> IF p = 1 THEN SclNoData ELSE 9

BaseOf(band) ==
    CASE band = "red" -> 100
      [] band = "green" -> 200
      [] band = "blue" -> 300
      [] band = "nir" -> 400

Asset(kind, band, p) ==
    IF band = "scl" THEN SclOf(kind, p)
    ELSE CASE kind = "clear" -> BaseOf(band) + p
           [] kind = "hazy" -> BaseOf(band) + p + 3
           [] kind = "partly" -> IF p = 1 THEN BandNoData ELSE 9000 + BaseOf(band)

Archives == UNION {[1 .. n -> SceneKinds] : n \in 0 .. MaxItems}

LoadCubeWithValid(its) ==
    [v \in BandNames \cup {"valid"} |->
        [t \in 1 .. Len(its) |->
            [p \in Pixels |->
                IF v = "valid" THEN is_valid_pixel(Asset(its[t], "scl", p))
                ELSE Asset(its[t], v, p)]]]

\* odc.stac.load(items, bands=["scl", "red", "green", "blue", "nir"], ...):
\* one time step per item, the five bands on the grid of the geobox.
LoadCube(its) ==
    [v \in BandNames |->
        [t \in 1 .. Len(its) |-> [p \in Pixels |-> Asset(its[t], v, p)]]]

-----------------------------------------------------------------------------
(* The kernel.  Every code cell is an action; a cell that raises keeps the *)
(* bindings made by the statements before the one that raised.  bound      *)
(* holds the names that another cell reads and the derived arrays; names   *)
(* used only inside the cell that binds them (geobox, band, fig, ax, the   *)
(* titles, daily, the two functions) are left out.                         *)

ImportNames == {"datetime", "timedelta", "Path", "xr", "pystac_client", "odc",
                "rioxarray", "GeoBox", "plt"}
GridNames == {"dx", "epsg", "latmin", "latmax", "lonmin", "lonmax", "bounds"}
DateNames == {"start_date", "end_date", "date_query"}

\* The code cells in notebook order.
CellOrder == <<"import", "search", "inspect", "load", "mask", "rgb", "daily",
               "select", "fc", "hist", "ndvi", "export", "reopen">>

IndexOf(cell) == CHOOSE i \in DOMAIN CellOrder : CellOrder[i] = cell

\* The bookkeeping of one cell execution: the exception it raised and whether
\* the kernel is still on an uninterrupted top-to-bottom run.
Ran(cell, e) ==
    /\ err' = e
    /\ pos' = IF pos = IndexOf(cell) - 1 /\ err = "none" THEN IndexOf(cell) ELSE -1

Idle == UNCHANGED fnVars /\ UNCHANGED chunkVars /\ UNCHANGED permVars

Init ==
    /\ archive \in Archives
    /\ nanCast \in NanCasts
    /\ bound = {} /\ items = <<>> /\ dc = <<>>
    /\ rgb_median = <<>> /\ fc_median = <<>> /\ ndvi = <<>> /\ hist = <<>>
    /\ err = "none" /\ pos = 0
    /\ loaded = <<>> /\ maskFresh = FALSE
    /\ c = 0 /\ a = 0 /\ b = 0 /\ maskOut = FALSE /\ ndOut = NaN /\ applied = {}
    /\ ChunkIdle
    /\ PermIdle

ImportCell ==
    /\ bound' = bound \cup ImportNames
    /\ Ran("import", "none")
    /\ UNCHANGED <<archive, nanCast, items, dc, rgb_median, fc_median, ndvi,
                   hist, loaded, maskFresh>>
    /\ Idle

\* The geometry is set first; the dates need datetime and timedelta.
SearchCell ==
    /\ IF ImportNames \subseteq bound
       THEN /\ bound' = bound \cup GridNames \cup DateNames \cup {"items"}
            /\ items' = archive
            /\ Ran("search", "none")
       ELSE /\ bound' = bound \cup GridNames
            /\ items' = items
            /\ Ran("search", "NameError")
    /\ UNCHANGED <<archive, nanCast, dc, rgb_median, fc_median, ndvi, hist,
                   loaded, maskFresh>>
    /\ Idle

\* for band in items[0].assets: ...; items[0]
InspectCell ==
    /\ IF "items" \notin bound
       THEN bound' = bound /\ Ran("inspect", "NameError")
       ELSE IF Len(items) = 0
       THEN bound' = bound /\ Ran("inspect", "IndexError")
       ELSE bound' = bound /\ Ran("inspect", "none")
    /\ UNCHANGED <<archive, nanCast, items, dc, rgb_median, fc_median, ndvi,
                   hist, loaded, maskFresh>>
    /\ Idle

\* geobox = GeoBox.from_bbox(bounds, ...); dc = odc.stac.load(items, ...).
\* Given no item, the loader either refuses or returns a cube of no time step.
LoadCell ==
    /\ IF ~({"GeoBox"} \cup GridNames \subseteq bound)
       THEN /\ bound' = bound /\ Ran("load", "NameError")
            /\ UNCHANGED <<dc, loaded, maskFresh>>
       ELSE IF ~({"odc", "items"} \subseteq bound)
       THEN /\ bound' = bound /\ Ran("load", "NameError")
            /\ UNCHANGED <<dc, loaded, maskFresh>>
       ELSE \/ /\ Len(items) = 0
               /\ bound' = bound /\ Ran("load", "ValueError")
               /\ UNCHANGED <<dc, loaded, maskFresh>>
            \/ /\ bound' = bound \cup {"dc"}
               /\ dc' = LoadCube(items)
               /\ loaded' = LoadCube(items)
               /\ maskFresh' = FALSE
               /\ Ran("load", "none")
    /\ UNCHANGED <<archive, nanCast, items, rgb_median, fc_median, ndvi, hist>>
    /\ Idle

\* def is_valid_pixel ...; dc["valid"] = is_valid_pixel(dc.scl)
MaskCell ==
    /\ IF "dc" \notin bound
       THEN /\ bound' = bound
            /\ Ran("mask", "NameError")
            /\ UNCHANGED <<dc, maskFresh>>
       ELSE /\ bound' = bound
            /\ dc' = AssignValid(dc, MaskOf(dc["scl"]))
            /\ maskFresh' = TRUE
            /\ Ran("mask", "none")
    /\ UNCHANGED <<archive, nanCast, items, rgb_median, fc_median, ndvi, hist,
                   loaded>>
    /\ Idle

\* rgb_median = dc[["red", "green", "blue"]].where(dc.valid)...; the plot
RgbCell ==
    /\ IF "dc" \notin bound
       THEN /\ bound' = bound /\ Ran("rgb", "NameError")
            /\ UNCHANGED rgb_median
       ELSE IF "valid" \notin DOMAIN dc
       THEN /\ bound' = bound /\ Ran("rgb", "AttributeError")
            /\ UNCHANGED rgb_median
       ELSE /\ bound' = bound \cup {"rgb_median"}
            /\ rgb_median' = Composite(dc, RgbBands, nanCast)
            /\ Ran("rgb", "none")
    /\ UNCHANGED <<archive, nanCast, items, dc, fc_median, ndvi, hist, loaded,
                   maskFresh>>
    /\ Idle

\* daily = dc.red.resample(time='1D').max(); daily.dropna(...); the plot
DailyCell ==
    /\ IF "dc" \notin bound
       THEN bound' = bound /\ Ran("daily", "NameError")
       ELSE bound' = bound /\ Ran("daily", "none")
    /\ UNCHANGED <<archive, nanCast, items, dc, rgb_median, fc_median, ndvi,
                   hist, loaded, maskFresh>>
    /\ Idle

\* dc[['red', 'green', 'blue']].isel(time=3)...: the fourth time step
SelectCell ==
    /\ bound' = bound
    /\ IF "dc" \notin bound THEN Ran("select", "NameError")
       ELSE IF Len(dc["red"]) < 4 THEN Ran("select", "IndexError")
       ELSE Ran("select", "none")
    /\ UNCHANGED <<archive, nanCast, items, dc, rgb_median, fc_median, ndvi,
                   hist, loaded, maskFresh>>
    /\ Idle

\* fc_median = dc[['nir', 'green', 'blue']].where(dc.valid)...; the plot
FcCell ==
    /\ IF "dc" \notin bound
       THEN /\ bound' = bound /\ Ran("fc", "NameError")
            /\ UNCHANGED fc_median
       ELSE IF "valid" \notin DOMAIN dc
       THEN /\ bound' = bound /\ Ran("fc", "AttributeError")
            /\ UNCHANGED fc_median
       ELSE /\ bound' = bound \cup {"fc_median"}
            /\ fc_median' = Composite(dc, FcBands, nanCast)
            /\ Ran("fc", "none")
    /\ UNCHANGED <<archive, nanCast, items, dc, rgb_median, ndvi, hist, loaded,
                   maskFresh>>
    /\ Idle

\* fig, ax = plt.subplots(); for band in ...: dc[band].median("time").plot.hist
HistCell ==
    /\ IF "plt" \notin bound
       THEN bound' = bound /\ Ran("hist", "NameError") /\ UNCHANGED hist
       ELSE IF "dc" \notin bound
       THEN /\ bound' = bound
            /\ Ran("hist", "NameError")
            /\ UNCHANGED hist
       ELSE /\ bound' = bound
            /\ hist' = HistOf(dc)
            /\ Ran("hist", "none")
    /\ UNCHANGED <<archive, nanCast, items, dc, rgb_median, fc_median, ndvi,
                   loaded, maskFresh>>
    /\ Idle

\* def normalized_difference ...; ndvi = normalized_difference(dc.nir, dc.red)
NdviCell ==
    /\ IF "dc" \notin bound
       THEN /\ bound' = bound
            /\ Ran("ndvi", "NameError")
            /\ UNCHANGED ndvi
       ELSE /\ bound' = bound \cup {"ndvi"}
            /\ ndvi' = NdviOf(dc)
            /\ Ran("ndvi", "none")
    /\ UNCHANGED <<archive, nanCast, items, dc, rgb_median, fc_median, hist,
                   loaded, maskFresh>>
    /\ Idle

\* The two export cells hold comments only.
ExportCell ==
    /\ bound' = bound
    /\ Ran("export", "none")
    /\ UNCHANGED <<archive, nanCast, items, dc, rgb_median, fc_median, ndvi,
                   hist, loaded, maskFresh>>
    /\ Idle

ReopenCell ==
    /\ bound' = bound
    /\ Ran("reopen", "none")
    /\ UNCHANGED <<archive, nanCast, items, dc, rgb_median, fc_median, ndvi,
                   hist, loaded, maskFresh>>
    /\ Idle

Next ==
    \/ ImportCell \/ SearchCell \/ InspectCell \/ LoadCell \/ MaskCell
    \/ RgbCell \/ DailyCell \/ SelectCell \/ FcCell \/ HistCell \/ NdviCell
    \/ ExportCell \/ ReopenCell

Spec == Init /\ [][Next]_vars

-----------------------------------------------------------------------------
(* Chunked evaluation.  The cube is loaded lazily in blocks of             *)
(* chunks["time"] time steps by chunks["x"] pixels; computing a derived    *)
(* array runs one task per block, in any order.  The mask and the NDVI are *)
(* elementwise, so their blocks are the cube's; the median runs per band   *)
(* and block of pixels, on the time axis rechunked into one chunk, once    *)
(* the mask blocks it reads are there.                                     *)

MaxChunkItems == 2

ChunkArchives == UNION {[1 .. n -> SceneKinds] : n \in 1 .. MaxChunkItems}

Blocks(n, size) ==
    {{i \in 1 .. n : (i - 1) \div size = k} : k \in 0 .. ((n - 1) \div size)}

TimeBlocks == Blocks(Len(cube["scl"]), chunks.time)
PixelBlocks == Blocks(NumPixels, chunks.x)

FirstChunkMedian(series, ct) == NanMedian(SubSeq(series, 1, ct))

\* The median along time of a chunked array: the time axis is rechunked into
\* a single chunk, then reduced.
ChunkedMedian(series, ct) == NanMedian(series)

ChunkInit ==
    /\ \E its \in ChunkArchives :
          /\ cube = LoadCube(its)
          /\ chunks \in [time : 1 .. Len(its), x : 1 .. NumPixels]
    /\ graph \in {"composite", "ndvi"}
    /\ validC = <<>>
    /\ outC = <<>>
    /\ nanCast \in NanCasts
    /\ KernelIdle
    /\ PermIdle
    /\ c = 0 /\ a = 0 /\ b = 0 /\ maskOut = FALSE /\ ndOut = NaN /\ applied = {}

\* One block of is_valid_pixel(dc.scl).
MaskBlock ==
    /\ graph = "composite"
    /\ \E tb \in TimeBlocks, pb \in PixelBlocks :
          /\ ~((tb \X pb) \subseteq DOMAIN validC)
          /\ validC' = [x \in tb \X pb |-> is_valid_pixel(cube["scl"][x[1]][x[2]])]
                           @@ validC
    /\ UNCHANGED <<cube, chunks, graph, outC>>
    /\ UNCHANGED kernelVars
    /\ UNCHANGED fnVars
    /\ UNCHANGED permVars

\* One block of .where(dc.valid)...median(dim="time").astype(int).
MedianBlock ==
    /\ graph = "composite"
    /\ \E bn \in RgbBands, pb \in PixelBlocks :
          /\ ((DOMAIN cube["scl"]) \X pb) \subseteq DOMAIN validC
          /\ ~(({bn} \X pb) \subseteq DOMAIN outC)
          /\ outC' =
                [x \in {bn} \X pb |->
                    LET p == x[2]
                        masked == [t \in DOMAIN cube[bn] |->
                                      IF validC[<<t, p>>]
                                      THEN Fin(cube[bn][t][p], 1) ELSE NaN]
                    IN  AsInt(ChunkedMedian(masked, chunks.time), nanCast)]
                @@ outC
    /\ UNCHANGED <<cube, chunks, graph, validC>>
    /\ UNCHANGED kernelVars
    /\ UNCHANGED fnVars
    /\ UNCHANGED permVars

\* One block of normalized_difference(dc.nir, dc.red).
NdviBlock ==
    /\ graph = "ndvi"
    /\ \E tb \in TimeBlocks, pb \in PixelBlocks :
          /\ ~((tb \X pb) \subseteq DOMAIN outC)
          /\ outC' = [x \in tb \X pb |->
                         normalized_difference(cube["nir"][x[1]][x[2]],
                                               cube["red"][x[1]][x[2]])]
                     @@ outC
    /\ UNCHANGED <<cube, chunks, graph, validC>>
    /\ UNCHANGED kernelVars
    /\ UNCHANGED fnVars
    /\ UNCHANGED permVars

ChunkNext == MaskBlock \/ MedianBlock \/ NdviBlock

SpecChunks == ChunkInit /\ [][ChunkNext]_vars

-----------------------------------------------------------------------------
(* The composite as a function of the cube: a composite cell applied to a  *)
(* masked cube and to the same cube with its time steps reordered.         *)

MaxPermItems == 3

PermArchives == UNION {[1 .. n -> SceneKinds] : n \in 1 .. MaxPermItems}

Perms(n) ==
    {f \in [1 .. n -> 1 .. n] : \A i, j \in 1 .. n : f[i] = f[j] => i = j}

\* The cube with time step f[t] at position t, in every variable.
Permuted(d, f) == [v \in DOMAIN d |-> [t \in DOMAIN d[v] |-> d[v][f[t]]]]

PermInit ==
    /\ \E its \in PermArchives :
          /\ dc = AssignValid(LoadCube(its), MaskOf(LoadCube(its)["scl"]))
          /\ loaded = LoadCube(its)
          /\ perm \in Perms(Len(its))
    /\ nanCast \in NanCasts
    /\ bound = ImportNames \cup GridNames \cup DateNames \cup {"items", "dc"}
    /\ maskFresh = TRUE
    /\ archive = <<>> /\ items = <<>>
    /\ rgb_median = <<>> /\ fc_median = <<>> /\ ndvi = <<>> /\ hist = <<>>
    /\ err = "none" /\ pos = -1
    /\ permOut = <<>>
    /\ c = 0 /\ a = 0 /\ b = 0 /\ maskOut = FALSE /\ ndOut = NaN /\ applied = {}
    /\ ChunkIdle

\* The composite of the cube as loaded.
ComposeLoaded ==
    /\ \E bands \in {RgbBands, FcBands} :
          /\ permOut # <<>> => DOMAIN permOut = bands
          /\ IF bands = RgbBands
             THEN /\ rgb_median' = Composite(dc, bands, nanCast)
                  /\ bound' = bound \cup {"rgb_median"}
                  /\ UNCHANGED fc_median
             ELSE /\ fc_median' = Composite(dc, bands, nanCast)
                  /\ bound' = bound \cup {"fc_median"}
                  /\ UNCHANGED rgb_median
    /\ UNCHANGED <<archive, nanCast, items, dc, ndvi, hist, err, pos, loaded,
                   maskFresh, perm, permOut>>
    /\ UNCHANGED fnVars
    /\ UNCHANGED chunkVars

\* The composite of the cube with its time steps reordered.
ComposeReordered ==
    /\ permOut = <<>>
    /\ \E bands \in {RgbBands, FcBands} :
          /\ ("rgb_median" \in bound => bands = RgbBands)
          /\ ("fc_median" \in bound => bands = FcBands)
          /\ permOut' = Composite(Permuted(dc, perm), bands, nanCast)
    /\ UNCHANGED <<perm>>
    /\ UNCHANGED kernelVars
    /\ UNCHANGED fnVars
    /\ UNCHANGED chunkVars

PermNext == ComposeLoaded \/ ComposeReordered

SpecOrder == PermInit /\ [][PermNext]_vars

-----------------------------------------------------------------------------
\* C1: for every classification code c the scl band can hold, the missing-data
\* value 0 included, is_valid_pixel(c) is true exactly when c is 4, 5, 6 or 11.
C1_ValidExactly ==
    "mask" \in applied =>
        /\ maskOut = (c \in {4, 5, 6, 11})
        /\ (c \in {0, 1, 2, 3, 7, 8, 9, 10} => ~maskOut)
        /\ (c = SclNoData => ~maskOut)

C1_Witness == "mask" \in applied /\ c = 11 /\ maskOut

\* C3: for positive band values whose sum (even as the cube's representation
\* stores it) is not zero, normalized_difference lies in [-1, 1].
C3_RangeOriginal ==
    ("nd" \in applied /\ a > 0 /\ b > 0 /\ (a + b) % (2^BandBits) # 0)
        => InUnitRange(ndOut)

\* C7: when a + b is zero the result is NaN, and no input pair yields anything
\* but a number in [-1, 1] or NaN.
C7_NanOrRangeOriginal ==
    "nd" \in applied =>
        /\ (a + b = 0 => ndOut = NaN)
        /\ (ndOut = NaN \/ InUnitRange(ndOut))

-----------------------------------------------------------------------------
(* Claims about the kernel.                                                *)

Steps == IF "dc" \in bound THEN Len(dc["scl"]) ELSE 0

HasMask == "dc" \in bound /\ "valid" \in DOMAIN dc

AllMasked(p) == HasMask /\ Steps >= 1 /\ \A t \in 1 .. Steps : ~dc["valid"][t][p]

SomeValid(p) == HasMask /\ \E t \in 1 .. Steps : dc["valid"][t][p]

\* A missing value of an output array: NaN, or the bands' no-data value.
IsMissing(v) == v = NaN \/ v = I(BandNoData)

\* C2: where the mask is false at a pixel for all time steps, the composites
\* hold the missing-data sentinel at that pixel, in every band.
C2_EmptySetOriginal ==
    \A p \in Pixels :
        AllMasked(p) =>
            /\ ("rgb_median" \in bound =>
                    \A bn \in RgbBands : IsMissing(rgb_median[bn][p]))
            /\ ("fc_median" \in bound =>
                    \A bn \in FcBands : IsMissing(fc_median[bn][p]))

\* C4: whatever the number of items the search returns, zero included, the
\* cells run top to bottom from the search to the composites raise nothing,
\* the cube has one time step per item and the composite has three bands.
C4_InOrderOriginal ==
    (pos >= IndexOf("search") /\ pos <= IndexOf("fc")) =>
        /\ err = "none"
        /\ (pos >= IndexOf("load") => Steps = Len(items))
        /\ (pos >= IndexOf("rgb") => DOMAIN rgb_median = RgbBands)

\* C5 as stated: dc always holds exactly what the load step produced (read
\* here on cubes of at least one time step).
C5_NeverMutatedOriginal == ("dc" \in bound /\ Steps >= 1) => dc = loaded

\* C5, amended: the composites, the histogram medians and the NDVI never
\* change dc and the mask cell only adds the variable valid to it: dc holds
\* the five loaded variables with the values the load step produced, and
\* besides them at most valid, the mask of the loaded scl.
C5_LoadedKept ==
    "dc" \in bound =>
        /\ DOMAIN dc \in {BandNames, BandNames \cup {"valid"}}
        /\ \A v \in BandNames : dc[v] = loaded[v]
        /\ ("valid" \in DOMAIN dc => dc["valid"] = MaskOf(loaded["scl"]))

C5_Witness ==
    /\ HasMask /\ Steps >= 2
    /\ \E t \in 1 .. Steps, p \in Pixels : ~dc["valid"][t][p]
    /\ {"rgb_median", "fc_median", "ndvi"} \subseteq bound
    /\ hist # <<>>

\* C6: the composite of a cube and the composite of the same cube with its
\* time steps permuted (band values and mask together) are the same array.
C6_OrderIndependent ==
    permOut # <<>> =>
        /\ ("rgb_median" \in bound => permOut = rgb_median)
        /\ ("fc_median" \in bound => permOut = fc_median)

C6_Witness ==
    /\ permOut # <<>> /\ "rgb_median" \in bound /\ Steps = 3
    /\ perm = <<2, 3, 1>>
    /\ \E p \in Pixels :
          /\ ~dc["valid"][1][p] /\ dc["valid"][2][p] /\ dc["valid"][3][p]
          /\ dc["red"][2][p] # dc["red"][3][p]

\* The median of the values of band bn at pixel p over the valid time steps,
\* doubled, by rank: the k-th smallest of the values is the one with fewer
\* than k values below it and at least k values not above it.
ValidSteps(p) == {t \in 1 .. Steps : dc["valid"][t][p]}

Kth(bn, p, k) ==
    CHOOSE v \in {dc[bn][t][p] : t \in ValidSteps(p)} :
        /\ Cardinality({t \in ValidSteps(p) : dc[bn][t][p] < v}) < k
        /\ Cardinality({t \in ValidSteps(p) : dc[bn][t][p] <= v}) >= k

TwiceMedian(bn, p) ==
    LET n == Cardinality(ValidSteps(p))
    IN  IF n % 2 = 1 THEN 2 * Kth(bn, p, (n + 1) \div 2)
        ELSE Kth(bn, p, n \div 2) + Kth(bn, p, n \div 2 + 1)

\* C8: at a pixel with a valid time step, a composite value is the median of
\* the band's values at exactly the valid time steps (the mean of the two
\* central values when they are even in number), cast to int afterwards.
C8_MedianOfValid ==
    \A p \in Pixels :
        SomeValid(p) =>
            /\ ("rgb_median" \in bound =>
                    \A bn \in RgbBands :
                        rgb_median[bn][p] = I(TwiceMedian(bn, p) \div 2))
            /\ ("fc_median" \in bound =>
                    \A bn \in FcBands :
                        fc_median[bn][p] = I(TwiceMedian(bn, p) \div 2))

C8_Witness ==
    /\ "rgb_median" \in bound /\ "fc_median" \in bound
    /\ \E p \in Pixels :
          /\ SomeValid(p)
          /\ Cardinality(ValidSteps(p)) = 2
          /\ Cardinality(ValidSteps(p)) < Steps
          /\ TwiceMedian("red", p) % 2 = 1
          /\ rgb_median["red"][p] = I((TwiceMedian("red", p) - 1) \div 2)

\* C10: a composite cell completes only if the mask cell completed after the
\* last completed load; a completed load leaves dc without valid, so that a
\* composite cell run on it raises until the mask cell has run again; and the
\* mask cell run again on the same cube yields the same mask.
C10_MaskAfterLoad ==
    [][/\ ((RgbCell \/ FcCell) /\ err' = "none") => maskFresh
       /\ (LoadCell /\ err' = "none") => ("valid" \notin DOMAIN dc' /\ ~maskFresh')
       /\ ((RgbCell \/ FcCell) /\ "dc" \in bound /\ ~maskFresh)
              => err' = "AttributeError"
       /\ (MaskCell /\ HasMask) => dc'["valid"] = dc["valid"]
      ]_vars

C10_Witness ==
    /\ "dc" \in bound /\ ~maskFresh /\ "rgb_median" \in bound
    /\ err = "AttributeError" /\ Steps >= 1

-----------------------------------------------------------------------------
(* Claims about chunked evaluation.                                        *)

WholeCube == AssignValid(cube, MaskOf(cube["scl"]))

====
